---------------------------- MODULE Spec2Model ----------------------------
(***************************************************************************)
(* ASH (Anti-tamper Security Hash): request-integrity and anti-replay      *)
(* protocol.  The module models                                            *)
(*   - the Flask server of examples/python-flask/app.py: context issuance  *)
(*     (issue_context) and the verification pipeline of the ash_protected  *)
(*     decorator, run by concurrent request threads over the shared        *)
(*     context_store dict;                                                 *)
(*   - the pure helpers it uses (canonicalize_json, build_proof,           *)
(*     timing_safe_equal) and the client's proof construction;             *)
(*   - the ContextStore contract (MemoryStore), whose implementation is    *)
(*     not among the source files and is modelled from the design text.    *)
(*                                                                         *)
(* Time is in milliseconds.  SHA-256 + Base64URL is modelled as an         *)
(* injective function of the hashed string that yields 43 characters.      *)
(***************************************************************************)
EXTENDS Integers, Sequences, FiniteSets, TLC

VARIABLES
    now,            \* wall clock, time.time() * 1000
    heap,           \* the context dicts ever created, by context id
    context_store,  \* keys of the context_store dict (key k holds heap[k])
    call,           \* the request threads of the protected endpoints
    store,          \* MemoryStore: id -> StoredContext
    created,        \* MemoryStore: number of contexts created so far
    lock,           \* MemoryStore: holder of the mutex, 0 when free
    op,             \* MemoryStore: the callers of consume / get
    args,           \* pure functions: the arguments of the call
    result          \* pure functions: what the call returned

vars == <<now, heap, context_store, call, store, created, lock, op, args, result>>
appVars == <<heap, context_store, call>>
storeVars == <<store, created, lock, op>>
pureVars == <<args, result>>

---------------------------------------------------------------------------
(* Bounds of the model *)

MaxTicks == 2       \* clock ticks taken
MaxCtx == 1         \* contexts issued while requests are served
MaxIssued == 2      \* contexts issued while one request at a time is served
NumCalls == 2       \* protected requests made
NumOps == 3         \* MemoryStore callers

(* Program constants *)

ttl_ms == 30000

ASH_VERSION == "ASHv1"

TickMs == ttl_ms
Calls == 1..NumCalls
Ops == 1..NumOps

---------------------------------------------------------------------------
(* JSON values, as Python objects: t is the type tag, n the number (or the *)
(* truth value of a bool), s the string, items the elements of a list or   *)
(* the key/value pairs of a dict in insertion order.                       *)

JNull == [t |-> "null", n |-> 0, s |-> "", items |-> <<>>]
JBool(b) == [t |-> "bool", n |-> IF b THEN 1 ELSE 0, s |-> "", items |-> <<>>]
JInt(i) == [t |-> "int", n |-> i, s |-> "", items |-> <<>>]
JStr(str) == [t |-> "str", n |-> 0, s |-> str, items |-> <<>>]
JList(xs) == [t |-> "list", n |-> 0, s |-> "", items |-> xs]
JDict(kvs) == [t |-> "dict", n |-> 0, s |-> "", items |-> kvs]
JNaN == [t |-> "nan", n |-> 0, s |-> "", items |-> <<>>]

\* Python truthiness of a parsed JSON value
Truthy(v) ==
    CASE v.t = "null" -> FALSE
      [] v.t = "bool" -> v.n = 1
      [] v.t = "int" -> v.n # 0
      [] v.t = "str" -> v.s # ""
      [] v.t \in {"list", "dict"} -> Len(v.items) > 0
      [] OTHER -> TRUE

\* The key strings used, in ascending code-point order (Python's sorted()).
CodePointOrder == <<"B", "a", "amount", "b", "name">>

KeyRank(k) == CHOOSE i \in 1..Len(CodePointOrder) : CodePointOrder[i] = k

RECURSIVE SortedKeys(_)
SortedKeys(ks) ==
    IF ks = {} THEN <<>>
    ELSE LET m == CHOOSE k \in ks : \A j \in ks : KeyRank(k) <= KeyRank(j)
         IN <<m>> \o SortedKeys(ks \ {m})

RECURSIVE Join(_, _)
Join(strs, sep) ==
    IF Len(strs) = 0 THEN ""
    ELSE IF Len(strs) = 1 THEN strs[1]
    ELSE strs[1] \o sep \o Join(Tail(strs), sep)

\* json.dumps of a string without characters that need escaping
json_dumps(str) == "\"" \o str \o "\""

DictGet(d, k) == (CHOOSE i \in 1..Len(d.items) : d.items[i][1] = k)

CanRaise == "ValueError"

\* mutant: the pairs of an object are emitted in the order they were given
RECURSIVE canonicalize_json_unsorted(_)
canonicalize_json_unsorted(obj) ==
    CASE obj.t = "null" -> "null"
      [] obj.t = "bool" -> IF obj.n = 1 THEN "true" ELSE "false"
      [] obj.t = "int" -> IF obj.n = 0 THEN "0" ELSE ToString(obj.n)
      [] obj.t = "str" -> json_dumps(obj.s)
      [] obj.t = "list" ->
            LET parts == [i \in 1..Len(obj.items) |->
                             canonicalize_json_unsorted(obj.items[i])]
            IN IF \E i \in 1..Len(parts) : parts[i] = CanRaise THEN CanRaise
               ELSE "[" \o Join(parts, ",") \o "]"
      [] obj.t = "dict" ->
            LET vals == [i \in 1..Len(obj.items) |->
                            canonicalize_json_unsorted(obj.items[i][2])]
                pairs == [i \in 1..Len(obj.items) |->
                            json_dumps(obj.items[i][1]) \o ":" \o vals[i]]
            IN IF \E i \in 1..Len(vals) : vals[i] = CanRaise THEN CanRaise
               ELSE "{" \o Join(pairs, ",") \o "}"
      [] OTHER -> CanRaise

\* canonicalize_json; the result is CanRaise where the Python raises
RECURSIVE canonicalize_json(_)
canonicalize_json(obj) ==
    CASE obj.t = "null" -> "null"
      [] obj.t = "bool" -> IF obj.n = 1 THEN "true" ELSE "false"
      [] obj.t = "int" -> IF obj.n = 0 THEN "0" ELSE ToString(obj.n)
      [] obj.t = "str" -> json_dumps(obj.s)
      [] obj.t = "list" ->
            LET parts == [i \in 1..Len(obj.items) |-> canonicalize_json(obj.items[i])]
            IN IF \E i \in 1..Len(parts) : parts[i] = CanRaise THEN CanRaise
               ELSE "[" \o Join(parts, ",") \o "]"
      [] obj.t = "dict" ->
            LET sorted_keys == SortedKeys({obj.items[i][1] : i \in 1..Len(obj.items)})
                vals == [i \in 1..Len(sorted_keys) |->
                            canonicalize_json(obj.items[DictGet(obj, sorted_keys[i])][2])]
                pairs == [i \in 1..Len(sorted_keys) |->
                            json_dumps(sorted_keys[i]) \o ":" \o vals[i]]
            IN IF \E i \in 1..Len(vals) : vals[i] = CanRaise THEN CanRaise
               ELSE "{" \o Join(pairs, ",") \o "}"
      [] OTHER -> CanRaise

\* client.py: canonicalize_json
RECURSIVE client_canonicalize_json(_)
client_canonicalize_json(obj) ==
    CASE obj.t = "null" -> "null"
      [] obj.t = "bool" -> IF obj.n = 1 THEN "true" ELSE "false"
      [] obj.t = "int" -> IF obj.n = 0 THEN "0" ELSE ToString(obj.n)
      [] obj.t = "str" -> json_dumps(obj.s)
      [] obj.t = "list" ->
            LET parts == [i \in 1..Len(obj.items) |->
                             client_canonicalize_json(obj.items[i])]
            IN IF \E i \in 1..Len(parts) : parts[i] = CanRaise THEN CanRaise
               ELSE "[" \o Join(parts, ",") \o "]"
      [] obj.t = "dict" ->
            LET sorted_keys == SortedKeys({obj.items[i][1] : i \in 1..Len(obj.items)})
                vals == [i \in 1..Len(sorted_keys) |->
                            client_canonicalize_json(
                                obj.items[DictGet(obj, sorted_keys[i])][2])]
                pairs == [i \in 1..Len(sorted_keys) |->
                            json_dumps(sorted_keys[i]) \o ":" \o vals[i]]
            IN IF \E i \in 1..Len(vals) : vals[i] = CanRaise THEN CanRaise
               ELSE "{" \o Join(pairs, ",") \o "}"
      [] OTHER -> CanRaise

---------------------------------------------------------------------------
(* Proofs.  A proof string is [len, pre]: its length and, for a digest,    *)
(* the string that was hashed.                                             *)

NoNonce == "None"   \* Python None, as a nonce (the empty string is as falsy)

\* Python truthiness of a nonce: str | None
HasNonce(nonce) == nonce # NoNonce /\ nonce # ""

Digest(input_str) == [len |-> 43, pre |-> input_str]

\* app.py: build_proof
build_proof(mode, binding, context_id, nonce, canonical_payload) ==
    LET head == ASH_VERSION \o "\n" \o mode \o "\n" \o binding \o "\n"
                    \o context_id \o "\n"
        input_str == IF HasNonce(nonce)
                     THEN head \o nonce \o "\n" \o canonical_payload
                     ELSE head \o canonical_payload
    IN Digest(input_str)

client_ASH_VERSION == "ASHv1"

\* mutant: the client leaves out the newline that ends the nonce segment
client_build_proof_unseparated(mode, binding, context_id, nonce, canonical_payload) ==
    LET head == client_ASH_VERSION \o "\n" \o mode \o "\n" \o binding \o "\n"
                    \o context_id \o "\n"
        with_nonce == IF HasNonce(nonce) THEN head \o nonce ELSE head
    IN Digest(with_nonce \o canonical_payload)

\* client.py: build_proof
client_build_proof(mode, binding, context_id, nonce, canonical_payload) ==
    LET head == client_ASH_VERSION \o "\n" \o mode \o "\n" \o binding \o "\n"
                    \o context_id \o "\n"
        with_nonce == IF HasNonce(nonce) THEN head \o nonce \o "\n" ELSE head
    IN Digest(with_nonce \o canonical_payload)

ASH_VERSION_PREFIX == "ASHv1"

\* mutant: the binding does not enter the hashed string
ash_build_proof_unbound(input_data) ==
    LET head == ASH_VERSION_PREFIX \o "\n" \o input_data.mode \o "\n"
                    \o input_data.context_id \o "\n"
        proof_input == IF input_data.nonce # NoNonce /\ input_data.nonce # ""
                       THEN head \o input_data.nonce \o "\n"
                       ELSE head
    IN Digest(proof_input \o input_data.canonical_payload)

\* ash/core/proof.py: build_proof(input_data: BuildProofInput)
ash_build_proof(input_data) ==
    LET head == ASH_VERSION_PREFIX \o "\n" \o input_data.mode \o "\n"
                    \o input_data.binding \o "\n" \o input_data.context_id \o "\n"
        proof_input == IF input_data.nonce # NoNonce /\ input_data.nonce # ""
                       THEN head \o input_data.nonce \o "\n"
                       ELSE head
    IN Digest(proof_input \o input_data.canonical_payload)

\* mutant: the length check is left out and the common prefix compared
timing_safe_equal_prefix(a, b) == a.pre = b.pre

timing_safe_equal(a, b) ==
    IF a.len # b.len THEN FALSE ELSE a.pre = b.pre


---------------------------------------------------------------------------
(* The binding normalizer (ash_normalize_binding), whose implementation is *)
(* not among the source files: the six steps of the design text, on        *)
(* strings.                                                                *)

LowerCase == "abcdefghijklmnopqrstuvwxyz"
UpperCase == "ABCDEFGHIJKLMNOPQRSTUVWXYZ"

Char(str, i) == SubSeq(str, i, i)

upper_char(ch) ==
    IF \E i \in 1..Len(LowerCase) : Char(LowerCase, i) = ch
    THEN Char(UpperCase, CHOOSE i \in 1..Len(LowerCase) : Char(LowerCase, i) = ch)
    ELSE ch

\* 1. uppercase the method
RECURSIVE upper(_)
upper(str) ==
    IF Len(str) = 0 THEN "" ELSE upper_char(Char(str, 1)) \o upper(Tail(str))

\* 2. strip the query string: '?' and anything after
strip_query(path) ==
    IF \E i \in 1..Len(path) : Char(path, i) = "?"
    THEN LET q == CHOOSE i \in 1..Len(path) :
                    /\ Char(path, i) = "?"
                    /\ \A j \in 1..(i - 1) : Char(path, j) # "?"
         IN SubSeq(path, 1, q - 1)
    ELSE path

\* 3. prepend '/' if absent
leading_slash(path) ==
    IF Len(path) > 0 /\ Char(path, 1) = "/" THEN path ELSE "/" \o path

\* 4. collapse runs of '/' to a single '/'
RECURSIVE collapse_slashes(_)
collapse_slashes(path) ==
    IF Len(path) < 2 THEN path
    ELSE IF Char(path, 1) = "/" /\ Char(path, 2) = "/"
         THEN collapse_slashes(Tail(path))
         ELSE Char(path, 1) \o collapse_slashes(Tail(path))

\* mutant: the trailing '/' is stripped from the root path too
strip_trailing_slash_always(path) ==
    IF Len(path) > 0 /\ Char(path, Len(path)) = "/"
    THEN SubSeq(path, 1, Len(path) - 1)
    ELSE path

\* 5. strip the trailing '/' unless the path is exactly '/'
strip_trailing_slash(path) ==
    IF Len(path) > 1 /\ Char(path, Len(path)) = "/"
    THEN SubSeq(path, 1, Len(path) - 1)
    ELSE path

\* mutant: the trailing '/' is stripped before the runs are collapsed
normalize_binding_trailing_first(method, path) ==
    upper(method) \o " " \o
        collapse_slashes(strip_trailing_slash(leading_slash(strip_query(path))))

\* 6. emit "<METHOD> <path>"
normalize_binding(method, path) ==
    upper(method) \o " " \o
        strip_trailing_slash(collapse_slashes(leading_slash(strip_query(path))))

---------------------------------------------------------------------------
(* The Flask server: examples/python-flask/app.py *)

\* mutant: the id of the first context is handed out again
generate_context_id_reused(n) == "ctx_1"

\* "ctx_" + secrets.token_hex(16): 128 random bits, modelled as never
\* repeating (the n-th id generated)
generate_context_id(n) == "ctx_" \o ToString(n)

\* mutant: the nonce generated is empty
generate_nonce_empty(n) == ""

generate_nonce(n) == "nonce" \o ToString(n)

\* bindings a client asks a context for (request.args "binding")
IssueBindings == {"POST /api/protected", "POST /api/update", "post /api//protected/"}

\* modes a client asks for (request.args "mode")
Modes == {"balanced", "strict"}

\* the bindings ash_protected decorates an endpoint with
ProtectedBindings == {"POST /api/protected"}

None == ""          \* Python None for a context id, a dict reference

NotCalled == [called |-> FALSE]

NoProof == [len |-> 0, pre |-> ""]          \* header absent (or empty)
Garbage == [len |-> 5, pre |-> "proof"]     \* a header that is no digest

\* a digest with its last character cut off
Truncated(proof) == [proof EXCEPT !.len = proof.len - 1]

\* request bodies, as the bytes sent; Unread before request.get_json is called
Unread == "<unread>"
Raw100 == "{\"amount\":100}"
Raw1M == "{\"amount\":1000000}"
RawEmptyList == "[]"
RawNotJson == "amount=100"

Bodies == {Raw100, RawEmptyList, RawNotJson}

Data100 == JDict(<< <<"amount", JInt(100)>> >>)
Data1M == JDict(<< <<"amount", JInt(1000000)>> >>)
DataEmptyList == JList(<<>>)

ParseError == [t |-> "error", n |-> 0, s |-> "", items |-> <<>>]

\* request.get_json(force=True): the parsed value of the bodies above
\* (ParseError where it raises BadRequest)
get_json(raw) ==
    CASE raw = Raw100 -> Data100
      [] raw = Raw1M -> Data1M
      [] raw = RawEmptyList -> DataEmptyList
      [] OTHER -> ParseError

\* what clients build proofs over (client.py sends json=request_data)
ProofData == {Data100, DataEmptyList}

\* the body the requests library sends for json=d
requests_json(d) == IF d = Data100 THEN Raw100 ELSE RawEmptyList

Issued == DOMAIN heap

\* the JSON response of /api/context (app.py) as the client reads it
\* (client.py: context.get("nonce") is None when the key is absent)
IssueResponse(k) ==
    [contextId |-> k, binding |-> heap[k].binding, mode |-> heap[k].mode,
     expiresAt |-> heap[k].expires_at,
     nonce |-> IF HasNonce(heap[k].nonce) THEN heap[k].nonce ELSE NoNonce]

\* client.py: the proof a client builds for data d from the response r
ClientProof(r, d) ==
    client_build_proof(r.mode, r.binding, r.contextId, r.nonce, canonicalize_json(d))

\* the X-ASH-Proof values tried with context id k
ProofsFor(k) ==
    IF k \in Issued
    THEN {ClientProof(IssueResponse(k), d) : d \in ProofData}
            \cup {Truncated(ClientProof(IssueResponse(k), Data100)), NoProof}
    ELSE {Garbage}

IdleCall ==
    [pc |-> "idle", context_id |-> None, client_proof |-> NoProof,
     expected_binding |-> "", body |-> Unread, context |-> None,
     error |-> "", status |-> 0, t0 |-> 0, after |-> {}]

\* the response of the decorated function
Respond(c, error, status) ==
    call' = [call EXCEPT ![c].pc = "done", ![c].error = error,
                         ![c].status = status]

\* the clock advances
Tick ==
    /\ now < MaxTicks * TickMs
    /\ now' = now + TickMs
    /\ UNCHANGED <<appVars, storeVars, pureVars>>

\* GET /api/context
issue_context(binding, mode) ==
    /\ LET n == Cardinality(Issued) + 1
           context_id == generate_context_id(n)
           expires_at == now + ttl_ms
           nonce == IF mode = "strict" THEN generate_nonce(n) ELSE NoNonce
       IN /\ heap' = [k \in Issued \cup {context_id} |->
                        IF k = context_id
                        THEN [id |-> context_id, binding |-> binding, mode |-> mode,
                              expires_at |-> expires_at, used |-> FALSE,
                              nonce |-> nonce]
                        ELSE heap[k]]
          /\ context_store' = context_store \cup {context_id}
    /\ UNCHANGED <<now, call, storeVars, pureVars>>

\* Step 1: a request reaches an endpoint decorated with expected_binding;
\* the headers are read and a missing (or empty) one is refused
Request(c, context_id, client_proof, expected_binding) ==
    /\ call[c].pc = "idle"
    /\ \A d \in Calls : d < c => call[d].pc # "idle"
    /\ LET started == [call[c] EXCEPT !.context_id = context_id,
                                      !.client_proof = client_proof,
                                      !.expected_binding = expected_binding,
                                      !.t0 = now,
                                      !.after = {d \in Calls : call[d].pc = "done"}]
       IN IF context_id = None \/ client_proof = NoProof
          THEN call' = [call EXCEPT ![c] =
                          [started EXCEPT !.pc = "done", !.error = "ASH_MISSING_HEADERS",
                                          !.status = 401]]
          ELSE call' = [call EXCEPT ![c] = [started EXCEPT !.pc = "get"]]
    /\ UNCHANGED <<now, heap, context_store, storeVars, pureVars>>

\* mutant: the lookup still finds a context that was removed
GetContext_removed_found(c) ==
    /\ call[c].pc = "get"
    /\ IF call[c].context_id \in Issued
       THEN call' = [call EXCEPT ![c].pc = "expiry", ![c].context = call[c].context_id]
       ELSE Respond(c, "ASH_INVALID_CONTEXT", 401)
    /\ UNCHANGED <<now, heap, context_store, storeVars, pureVars>>

\* Step 2: context = context_store.get(context_id)
GetContext(c) ==
    /\ call[c].pc = "get"
    /\ IF call[c].context_id \in context_store
       THEN call' = [call EXCEPT ![c].pc = "expiry", ![c].context = call[c].context_id]
       ELSE Respond(c, "ASH_INVALID_CONTEXT", 401)
    /\ UNCHANGED <<now, heap, context_store, storeVars, pureVars>>

\* the comparison of Step 3
Expired(t, context) == t > context.expires_at

\* Step 3: the clock is read and compared with context["expires_at"]
CheckExpiry(c) ==
    /\ call[c].pc = "expiry"
    /\ call' = [call EXCEPT ![c].pc =
                  IF Expired(now, heap[call[c].context]) THEN "del" ELSE "verify"]
    /\ UNCHANGED <<now, heap, context_store, storeVars, pureVars>>

\* mutant: the expired context is reported and left in the store
DelExpired_kept(c) ==
    /\ call[c].pc = "del"
    /\ UNCHANGED context_store
    /\ Respond(c, "ASH_CONTEXT_EXPIRED", 401)
    /\ UNCHANGED <<now, heap, storeVars, pureVars>>

\* mutant: every expired context is swept, not only the one looked up
DelExpired_sweep(c) ==
    /\ call[c].pc = "del"
    /\ IF call[c].context_id \in context_store
       THEN /\ context_store' = {k \in context_store : ~Expired(now, heap[k])}
            /\ Respond(c, "ASH_CONTEXT_EXPIRED", 401)
       ELSE /\ UNCHANGED context_store
            /\ Respond(c, "KeyError", 500)
    /\ UNCHANGED <<now, heap, storeVars, pureVars>>

\* Step 3, expired: del context_store[context_id], which raises KeyError
\* (an unhandled exception, answered 500) when the key is gone
DelExpired(c) ==
    /\ call[c].pc = "del"
    /\ IF call[c].context_id \in context_store
       THEN /\ context_store' = context_store \ {call[c].context_id}
            /\ Respond(c, "ASH_CONTEXT_EXPIRED", 401)
       ELSE /\ UNCHANGED context_store
            /\ Respond(c, "KeyError", 500)
    /\ UNCHANGED <<now, heap, storeVars, pureVars>>

\* Step 6: request.get_json(force=True) or {}, canonicalized
CanonicalPayload(body) ==
    LET parsed == get_json(body)
        payload == IF Truthy(parsed) THEN parsed ELSE JDict(<<>>)
    IN IF parsed = ParseError THEN CanRaise ELSE canonicalize_json(payload)

\* Step 7: the proof the server expects
ExpectedProof(context, context_id, canonical_payload) ==
    build_proof(context.mode, context.binding, context_id, context.nonce,
                canonical_payload)

\* mutant: Step 5, the binding comparison, is left out
Verdict_without_binding(context, context_id, client_proof, expected_binding, body) ==
    IF context.used THEN "ASH_REPLAY_DETECTED"
    ELSE IF CanonicalPayload(body) = CanRaise THEN "ASH_CANONICALIZATION_FAILED"
    ELSE IF ~timing_safe_equal(
                ExpectedProof(context, context_id, CanonicalPayload(body)),
                client_proof)
         THEN "ASH_INTEGRITY_FAILED"
    ELSE ""

\* mutant: the proof is compared before the binding
Verdict_proof_first(context, context_id, client_proof, expected_binding, body) ==
    IF context.used THEN "ASH_REPLAY_DETECTED"
    ELSE IF CanonicalPayload(body) = CanRaise THEN "ASH_CANONICALIZATION_FAILED"
    ELSE IF ~timing_safe_equal(
                ExpectedProof(context, context_id, CanonicalPayload(body)),
                client_proof)
         THEN "ASH_INTEGRITY_FAILED"
    ELSE IF context.binding # expected_binding THEN "ASH_ENDPOINT_MISMATCH"
    ELSE ""

\* Steps 4 to 8 read context["used"] once and otherwise only the request and
\* fields of the context that never change: the verdict, "" when all pass
Verdict(context, context_id, client_proof, expected_binding, body) ==
    IF context.used THEN "ASH_REPLAY_DETECTED"
    ELSE IF context.binding # expected_binding THEN "ASH_ENDPOINT_MISMATCH"
    ELSE IF CanonicalPayload(body) = CanRaise THEN "ASH_CANONICALIZATION_FAILED"
    ELSE IF ~timing_safe_equal(
                ExpectedProof(context, context_id, CanonicalPayload(body)),
                client_proof)
         THEN "ASH_INTEGRITY_FAILED"
    ELSE ""

StatusOf(error) == IF error = "ASH_CANONICALIZATION_FAILED" THEN 400 ELSE 401

\* mutant: the context is consumed before the proof is compared
Verify_consume_first(c, body) ==
    /\ call[c].pc = "verify"
    /\ LET v == Verdict(heap[call[c].context], call[c].context_id,
                        call[c].client_proof, call[c].expected_binding, body)
           read == IF v \in {"ASH_REPLAY_DETECTED", "ASH_ENDPOINT_MISMATCH"}
                   THEN Unread ELSE body
       IN /\ heap' = IF v \in {"", "ASH_INTEGRITY_FAILED"}
                     THEN [heap EXCEPT ![call[c].context].used = TRUE]
                     ELSE heap
          /\ IF v = ""
             THEN call' = [call EXCEPT ![c].pc = "consume", ![c].body = read]
             ELSE call' = [call EXCEPT ![c].pc = "done", ![c].body = read,
                                       ![c].error = v, ![c].status = StatusOf(v)]
    /\ UNCHANGED <<now, context_store, storeVars, pureVars>>

\* Steps 4 to 8: replay check, binding, canonicalization, proof comparison
Verify(c, body) ==
    /\ call[c].pc = "verify"
    /\ LET v == Verdict(heap[call[c].context], call[c].context_id,
                        call[c].client_proof, call[c].expected_binding, body)
           read == IF v \in {"ASH_REPLAY_DETECTED", "ASH_ENDPOINT_MISMATCH"}
                   THEN Unread ELSE body
       IN IF v = ""
          THEN call' = [call EXCEPT ![c].pc = "consume", ![c].body = read]
          ELSE call' = [call EXCEPT ![c].pc = "done", ![c].body = read,
                                    ![c].error = v, ![c].status = StatusOf(v)]
    /\ UNCHANGED <<now, heap, context_store, storeVars, pureVars>>

\* mutant: the context is not marked
MarkUsed_forgotten(context) == context

\* mutant: the flag is flipped instead of set
MarkUsed_toggled(context) == [context EXCEPT !.used = ~context.used]

\* Step 9: context["used"] = True
MarkUsed(context) == [context EXCEPT !.used = TRUE]

\* Steps 9 and 10: the context is marked used and the endpoint handler runs
Consume(c) ==
    /\ call[c].pc = "consume"
    /\ heap' = [heap EXCEPT ![call[c].context] = MarkUsed(@)]
    /\ Respond(c, "OK", 200)
    /\ UNCHANGED <<now, context_store, storeVars, pureVars>>

---------------------------------------------------------------------------
(* The ContextStore contract and its in-memory implementation: a mapping   *)
(* from id to record guarded by a mutex.  create, get and clear hold the   *)
(* lock for their whole body and are single steps; consume is modelled     *)
(* step by step: acquire, read, write, release.                            *)

StoreIds == DOMAIN store

StoreBindings == {"POST /api/update"}

Metadatas == {"{}", "{'user_id': 123}"}

\* what a call holds when no record was returned to it
NoRecord == [id |-> None]

IdleOp ==
    [pc |-> "idle", name |-> "", id |-> None, ret |-> "", rec |-> NoRecord,
     with |-> {}]

\* mutant: a context is still live at the instant it expires
StoreExpired_late(rec) == now > rec.expires_at

\* now >= expires_at: the context no longer verifies
StoreExpired(rec) == now >= rec.expires_at

\* mutant: the record is stored before its expiry is computed from the ttl
create_without_ttl(binding, ttl, mode, metadata) ==
    /\ lock = 0
    /\ created < MaxCtx
    /\ created' = created + 1
    /\ LET n == created + 1
           id == generate_context_id(n)
       IN store' = [k \in StoreIds \cup {id} |->
                      IF k = id
                      THEN [id |-> id, binding |-> binding, mode |-> mode,
                            expires_at |-> now, used |-> FALSE,
                            nonce |-> IF mode = "strict" THEN generate_nonce(n)
                                      ELSE NoNonce,
                            metadata |-> metadata]
                      ELSE store[k]]
    /\ UNCHANGED <<now, appVars, pureVars, lock, op>>

\* create(binding, ttl_ms, mode, metadata): a fresh id, persisted atomically
create(binding, ttl, mode, metadata) ==
    /\ lock = 0
    /\ created < MaxCtx
    /\ created' = created + 1
    /\ LET n == created + 1
           id == generate_context_id(n)
       IN store' = [k \in StoreIds \cup {id} |->
                      IF k = id
                      THEN [id |-> id, binding |-> binding, mode |-> mode,
                            expires_at |-> now + ttl, used |-> FALSE,
                            nonce |-> IF mode = "strict" THEN generate_nonce(n)
                                      ELSE NoNonce,
                            metadata |-> metadata]
                      ELSE store[k]]
    /\ UNCHANGED <<now, appVars, pureVars, lock, op>>

\* clear(): every record is dropped
clear ==
    /\ lock = 0
    /\ StoreIds # {}
    /\ store' = <<>>
    /\ UNCHANGED <<now, appVars, pureVars, created, lock, op>>

\* a caller invokes get(id) or consume(id)
StoreCall(o, name, id) ==
    /\ op[o].pc = "idle"
    /\ \A d \in Ops : d < o => op[d].pc # "idle"
    /\ op' = [op EXCEPT ![o] = [pc |-> "lock", name |-> name, id |-> id, ret |-> "",
                                rec |-> NoRecord,
                                with |-> {d \in Ops : op[d].pc \notin {"idle", "done"}}]]
    /\ UNCHANGED <<now, appVars, pureVars, store, created, lock>>

\* mutant: the mutex is not waited for
CanAcquire_unguarded(o) == TRUE

\* the mutex is free
CanAcquire(o) == lock = 0

Acquire(o) ==
    /\ op[o].pc = "lock"
    /\ CanAcquire(o)
    /\ lock' = o
    /\ op' = [op EXCEPT ![o].pc = op[o].name]
    /\ UNCHANGED <<now, appVars, pureVars, store, created>>

\* get(id): the record, NONE when missing or expired (an expired record may
\* be deleted)
get(o, delete) ==
    /\ op[o].pc = "get"
    /\ LET id == op[o].id
           found == id \in StoreIds /\ ~StoreExpired(store[id])
       IN /\ op' = [op EXCEPT ![o].pc = "unlock",
                              ![o].ret = IF found THEN "record" ELSE "NONE",
                              ![o].rec = IF found THEN store[id] ELSE NoRecord]
          /\ IF delete /\ id \in StoreIds /\ StoreExpired(store[id])
             THEN store' = [k \in StoreIds \ {id} |-> store[k]]
             ELSE UNCHANGED store
    /\ UNCHANGED <<now, appVars, pureVars, created, lock>>

\* mutant: expiry is not looked at
Consumable_ignoring_expiry(id) ==
    id \in StoreIds /\ ~store[id].used

\* consume(id) may make the transition used: false -> true
Consumable(id) ==
    id \in StoreIds /\ ~StoreExpired(store[id]) /\ ~store[id].used

\* consume(id), the read: missing, expired or used returns false
ConsumeRead(o) ==
    /\ op[o].pc = "consume"
    /\ IF Consumable(op[o].id)
       THEN op' = [op EXCEPT ![o].pc = "write"]
       ELSE op' = [op EXCEPT ![o].pc = "unlock", ![o].ret = "false"]
    /\ UNCHANGED <<now, appVars, pureVars, store, created, lock>>

\* consume(id), the write: used becomes true and the call returns true
ConsumeWrite(o) ==
    /\ op[o].pc = "write"
    /\ IF op[o].id \in StoreIds
       THEN store' = [store EXCEPT ![op[o].id].used = TRUE]
       ELSE UNCHANGED store
    /\ op' = [op EXCEPT ![o].pc = "unlock", ![o].ret = "true"]
    /\ UNCHANGED <<now, appVars, pureVars, created, lock>>

Release(o) ==
    /\ op[o].pc = "unlock"
    /\ lock' = IF lock = o THEN 0 ELSE lock
    /\ op' = [op EXCEPT ![o].pc = "done"]
    /\ UNCHANGED <<now, appVars, pureVars, store, created>>

StoreNext ==
    \/ Tick
    \/ \E binding \in StoreBindings, mode \in Modes, metadata \in Metadatas :
          create(binding, ttl_ms, mode, metadata)
    \/ clear
    \/ \E o \in Ops, name \in {"get", "consume"},
          id \in StoreIds \cup {"nonexistent"} : StoreCall(o, name, id)
    \/ \E o \in Ops : Acquire(o)
    \/ \E o \in Ops, delete \in BOOLEAN : get(o, delete)
    \/ \E o \in Ops : ConsumeRead(o)
    \/ \E o \in Ops : ConsumeWrite(o)
    \/ \E o \in Ops : Release(o)

AppNext ==
    \/ Tick
    \/ /\ Cardinality(Issued) < MaxCtx
       /\ \E binding \in IssueBindings, mode \in Modes : issue_context(binding, mode)
    \/ \E c \in Calls, k \in Issued \cup {"invalid_ctx", None},
          b \in ProtectedBindings :
          \E p \in ProofsFor(k) : Request(c, k, p, b)
    \/ \E c \in Calls : GetContext(c)
    \/ \E c \in Calls : CheckExpiry(c)
    \/ \E c \in Calls : DelExpired(c)
    \/ \E c \in Calls, body \in Bodies : Verify(c, body)
    \/ \E c \in Calls : Consume(c)

\* the requests served when issuance is looked at: one
SoloCalls == {1}

\* issuance of several contexts, around the verification of one request
IssueNext ==
    \/ Tick
    \/ /\ Cardinality(Issued) < MaxIssued
       /\ \E binding \in IssueBindings, mode \in Modes : issue_context(binding, mode)
    \/ \E c \in SoloCalls, k \in Issued \cup {"invalid_ctx", None},
          b \in ProtectedBindings :
          \E p \in ProofsFor(k) : Request(c, k, p, b)
    \/ \E c \in Calls : GetContext(c)
    \/ \E c \in Calls : CheckExpiry(c)
    \/ \E c \in Calls : DelExpired(c)
    \/ \E c \in Calls, body \in Bodies : Verify(c, body)
    \/ \E c \in Calls : Consume(c)

Init ==
    /\ now = 0
    /\ heap = <<>>
    /\ context_store = {}
    /\ call = [c \in Calls |-> IdleCall]
    /\ store = <<>>
    /\ created = 0
    /\ lock = 0
    /\ op = [o \in Ops |-> IdleOp]
    /\ args = NotCalled
    /\ result = NotCalled

---------------------------------------------------------------------------
(* The proof builders as pure functions: one call of the three v1 builders *)
(* (server, client, package) on the same arguments.                        *)

ProofNonces == {NoNonce, "", "nonce1", "nonce2"}

ProofPayloads == {"{}", "{\"amount\":100}", "nonce1\n{}"}

ProofInputs ==
    [mode : Modes, binding : {"POST /api/protected", "POST /api/update"},
     context_id : {generate_context_id(1), generate_context_id(2)},
     nonce : ProofNonces, canonical_payload : ProofPayloads]

InitProof ==
    /\ now = 0
    /\ heap = <<>>
    /\ context_store = {}
    /\ call = [c \in Calls |-> IdleCall]
    /\ store = <<>>
    /\ created = 0
    /\ lock = 0
    /\ op = [o \in Ops |-> IdleOp]
    /\ args \in ProofInputs
    /\ result = NotCalled

BuildProof ==
    /\ ~result.called
    /\ result' =
          [called |-> TRUE,
           server |-> build_proof(args.mode, args.binding, args.context_id,
                                  args.nonce, args.canonical_payload),
           client |-> client_build_proof(args.mode, args.binding, args.context_id,
                                         args.nonce, args.canonical_payload),
           package |-> ash_build_proof(args)]
    /\ UNCHANGED <<now, appVars, storeVars, args>>

ProofNext == BuildProof

Spec == Init /\ [][AppNext]_vars

SpecProof == InitProof /\ [][ProofNext]_vars

---------------------------------------------------------------------------
(* The v2.1 proof functions of ash/core/proof.py.  HMAC-SHA256(...)        *)
(* .hexdigest() is modelled as an injective function of the key and the    *)
(* message; hash_body as an injective function onto hex strings.           *)

HMAC(key, message) == [alg |-> "HMAC-SHA256", key |-> key, message |-> message]

\* mutant: the binding is left out of the message
derive_client_secret_unbound(nonce, context_id, binding) ==
    HMAC(nonce, context_id)

derive_client_secret(nonce, context_id, binding) ==
    LET message == context_id \o "|" \o binding
    IN HMAC(nonce, message)

\* mutant: the timestamp is left out of the message
build_proof_v21_undated(client_secret, timestamp, binding, body_hash) ==
    HMAC(client_secret, binding \o "|" \o body_hash)

build_proof_v21(client_secret, timestamp, binding, body_hash) ==
    LET message == timestamp \o "|" \o binding \o "|" \o body_hash
    IN HMAC(client_secret, message)

\* a header value that is no digest, and one with a non-ASCII character
NotADigest == [alg |-> "none"]
NonAscii == [alg |-> "non-ascii"]

\* hmac.compare_digest on two str: TypeError when one is not ASCII
compare_digest(a, b) ==
    IF a = NonAscii \/ b = NonAscii THEN "TypeError"
    ELSE IF a = b THEN "True" ELSE "False"

verify_proof_v21(nonce, context_id, binding, timestamp, body_hash, client_proof) ==
    LET client_secret == derive_client_secret(nonce, context_id, binding)
        expected_proof == build_proof_v21(client_secret, timestamp, binding, body_hash)
    IN compare_digest(expected_proof, client_proof)

\* hashlib.sha256(canonical_body).hexdigest(), its first characters
hash_body(canonical_body) ==
    CASE canonical_body = "{}" -> "44136fa355b3678a"
      [] canonical_body = "{\"amount\":100}" -> "4d4bbe59c6aad224"
      [] OTHER -> "e3b0c44298fc1c14"

\* ids as ash/core/proof.py generates them: "ash_" + secrets.token_hex(16)
v21_context_id(n) == "ash_" \o ToString(n)

\* what a request is verified against, and what a client built its proof for
V21Requests ==
    [nonce : {"nonce1", "nonce2"},
     context_id : {v21_context_id(1), v21_context_id(2)},
     binding : {"POST /api/update", "POST /api/delete", "1|POST /api/update"},
     timestamp : {"1700000000000", "1700000000001", "1700000000000|1"},
     body_hash : {hash_body("{}"), hash_body("{\"amount\":100}")}]

\* client side: the proof for request r, from the secret the server derived
V21ClientProof(r) ==
    build_proof_v21(derive_client_secret(r.nonce, r.context_id, r.binding),
                    r.timestamp, r.binding, r.body_hash)

V21Inputs ==
    [request : V21Requests,
     client_proof : {V21ClientProof(r) : r \in V21Requests}
                        \cup {NotADigest, NonAscii}]

InitV21 ==
    /\ now = 0
    /\ heap = <<>>
    /\ context_store = {}
    /\ call = [c \in Calls |-> IdleCall]
    /\ store = <<>>
    /\ created = 0
    /\ lock = 0
    /\ op = [o \in Ops |-> IdleOp]
    /\ args \in V21Inputs
    /\ result = NotCalled

VerifyV21 ==
    /\ ~result.called
    /\ result' =
          [called |-> TRUE,
           valid |-> verify_proof_v21(args.request.nonce, args.request.context_id,
                                      args.request.binding, args.request.timestamp,
                                      args.request.body_hash, args.client_proof)]
    /\ UNCHANGED <<now, appVars, storeVars, args>>

V21Next == VerifyV21

SpecV21 == InitV21 /\ [][V21Next]_vars

---------------------------------------------------------------------------
(* The canonicalizers on their own: a parsed JSON value and the same value *)
(* with the pairs of its objects given in another order.  A Python dict    *)
(* keeps the order its pairs were inserted in, here the order of items.    *)

MaxKeys == 2

CanonKeys == {"B", "a", "b"}

CanonValues ==
    {JNull, JBool(TRUE), JInt(1), JInt(2), JStr("x"),
     JList(<<JInt(2), JInt(1)>>), JList(<<JInt(1), JInt(2)>>)}

\* the sequences of n pairs with distinct keys
PairSeqs(n, keys, values) ==
    {kvs \in [1..n -> keys \X values] :
        \A i, j \in 1..n : kvs[i][1] = kvs[j][1] => i = j}

FlatObjects ==
    UNION {{JDict(kvs) : kvs \in PairSeqs(n, CanonKeys, CanonValues)} : n \in 0..MaxKeys}

\* objects inside an object and inside an array
InnerObjects == {JDict(kvs) : kvs \in PairSeqs(2, {"a", "b"}, {JInt(1), JInt(2)})}

NestedObjects ==
    UNION {{JDict(<<<<"name", i>>, <<"amount", JInt(100)>>>>),
            JDict(<<<<"amount", JInt(100)>>, <<"name", i>>>>),
            JList(<<i, JInt(0)>>)} : i \in InnerObjects}

CanonObjects == FlatObjects \cup NestedObjects

\* the same key/value pairs at every nesting level
RECURSIVE SameContent(_, _)
SameContent(x, y) ==
    /\ x.t = y.t
    /\ CASE x.t = "dict" ->
              /\ Len(x.items) = Len(y.items)
              /\ \A i \in 1..Len(x.items) : \E j \in 1..Len(y.items) :
                    /\ x.items[i][1] = y.items[j][1]
                    /\ SameContent(x.items[i][2], y.items[j][2])
         [] x.t = "list" ->
              /\ Len(x.items) = Len(y.items)
              /\ \A i \in 1..Len(x.items) : SameContent(x.items[i], y.items[i])
         [] OTHER -> x = y

CanonInputs ==
    UNION {{[obj |-> x, other |-> y] : y \in {z \in CanonObjects : SameContent(x, z)}}
              : x \in CanonObjects}

InitCanon ==
    /\ now = 0
    /\ heap = <<>>
    /\ context_store = {}
    /\ call = [c \in Calls |-> IdleCall]
    /\ store = <<>>
    /\ created = 0
    /\ lock = 0
    /\ op = [o \in Ops |-> IdleOp]
    /\ args \in CanonInputs
    /\ result = NotCalled

\* the server canonicalizes obj and builds its proof; the client does the
\* same for other
Canonicalize ==
    /\ ~result.called
    /\ LET server == canonicalize_json(args.obj)
           client == client_canonicalize_json(args.other)
       IN result' =
            [called |-> TRUE,
             server |-> server,
             server_other |-> canonicalize_json(args.other),
             client |-> client,
             client_obj |-> client_canonicalize_json(args.obj),
             expected_proof |-> build_proof("balanced", "POST /api/update",
                                            generate_context_id(1), NoNonce, server),
             client_proof |-> client_build_proof("balanced", "POST /api/update",
                                                 generate_context_id(1), NoNonce, client)]
    /\ UNCHANGED <<now, appVars, storeVars, args>>

CanonNext == Canonicalize

SpecCanon == InitCanon /\ [][CanonNext]_vars

SpecStore == Init /\ [][StoreNext]_vars

SpecIssue == Init /\ [][IssueNext]_vars

---------------------------------------------------------------------------
(* Vocabulary of the properties *)

Done(c) == call[c].pc = "done"

\* a completed run of the verification pipeline (Steps 2 to 10)
Verified(c) == Done(c) /\ call[c].error # "ASH_MISSING_HEADERS"

\* the request's body is raw: read as such, or not read before the response
SentBody(c, raw) == call[c].body \in {Unread, raw}

\* call c is a request for context k at the endpoint bound as k is, carrying
\* the proof a client builds over data d, with d as its body
HonestRequest(c, k, d) ==
    /\ call[c].context_id = k
    /\ call[c].expected_binding = heap[k].binding
    /\ call[c].client_proof = ClientProof(IssueResponse(k), d)
    /\ SentBody(c, requests_json(d))

\* some other call than c has returned valid=true for context k
ConsumedByOther(c, k) ==
    \E e \in Calls \ {c} :
        Done(e) /\ call[e].context_id = k /\ call[e].error = "OK"

BeforeExpiry(k) == now < heap[k].expires_at

---------------------------------------------------------------------------
(* C1: single use under concurrency.  While context k is unexpired, of the *)
(* completed verify calls for k with otherwise-valid arguments (matching   *)
(* binding, the client's proof over the non-empty JSON object sent)        *)
(* exactly one returned valid=true and every other one REPLAY_DETECTED.    *)
C1_SingleUse ==
    \A k \in Issued :
        LET V == {c \in Calls : Verified(c) /\ HonestRequest(c, k, Data100)}
            ok == {c \in V : call[c].error = "OK"}
        IN (BeforeExpiry(k) /\ V # {}) =>
              /\ Cardinality(ok) = 1
              /\ \A c \in V \ ok : call[c].error = "ASH_REPLAY_DETECTED"

---------------------------------------------------------------------------
(* C2: consume is a single-winner operation.  Of the completed consume     *)
(* calls for one id, concurrent or not, at most one observed true; and for *)
(* a context that exists and is unexpired, exactly one did, every other    *)
(* one observing false.                                                    *)
ConsumeDone(o, id) ==
    op[o].pc = "done" /\ op[o].name = "consume" /\ op[o].id = id

Winners(id) == {o \in Ops : ConsumeDone(o, id) /\ op[o].ret = "true"}

C2_SingleWinner ==
    /\ \A o \in Ops : op[o].pc = "done" /\ op[o].name = "consume"
                        => op[o].ret \in {"true", "false"}
    /\ \A id \in {generate_context_id(n) : n \in 1..created} :
          /\ Cardinality(Winners(id)) <= 1
          /\ ( /\ id \in StoreIds
               /\ now < store[id].expires_at
               /\ \E o \in Ops : ConsumeDone(o, id) )
             => Cardinality(Winners(id)) = 1

\* two consume calls for the same unexpired context that ran concurrently
C2_Witness ==
    \E o, q \in Ops, id \in StoreIds :
        /\ o # q
        /\ ConsumeDone(o, id) /\ ConsumeDone(q, id)
        /\ o \in op[q].with
        /\ now < store[id].expires_at
        /\ op[o].ret = "true" /\ op[q].ret = "false"

---------------------------------------------------------------------------
(* C3: consume(id) returns true iff that call itself made the transition   *)
(* used: false -> true.  A consume that finds the context missing (never   *)
(* created, or cleared), expired or already used returns false and leaves  *)
(* the store unchanged; on an existing, unexpired, unused context it makes *)
(* the transition and returns true; no other step sets a used flag.        *)
ConsumeReads(o) == op[o].name = "consume" /\ op[o].pc = "consume"
ConsumeWrites(o) == op[o].name = "consume" /\ op[o].pc = "write"

Fresh(id) ==
    id \in StoreIds /\ now < store[id].expires_at /\ ~store[id].used

MadeTransition(id) ==
    /\ id \in StoreIds /\ id \in DOMAIN store'
    /\ ~store[id].used /\ store'[id].used

C3_ConsumeResult ==
    [][ /\ \A o \in Ops :
            /\ (ConsumeReads(o) /\ op'[o] # op[o]) =>
                  /\ store' = store
                  /\ IF Fresh(op[o].id) THEN ConsumeWrites(o)'
                     ELSE op'[o].pc = "unlock" /\ op'[o].ret = "false"
            /\ (ConsumeWrites(o) /\ op'[o] # op[o]) =>
                  /\ MadeTransition(op[o].id)
                  /\ op'[o].ret = "true"
                  /\ \A k \in StoreIds \ {op[o].id} :
                        k \in DOMAIN store' /\ store'[k] = store[k]
        /\ \A id \in StoreIds :
              MadeTransition(id) =>
                 \E o \in Ops : ConsumeWrites(o) /\ op[o].id = id /\ op'[o].ret = "true"
      ]_vars

\* consume has returned true for a context, now used, and false for an id
\* that was never created
C3_Witness ==
    \E o, q \in Ops, id \in StoreIds :
        /\ ConsumeDone(o, id) /\ op[o].ret = "true" /\ store[id].used
        /\ ConsumeDone(q, "nonexistent") /\ op[q].ret = "false"

---------------------------------------------------------------------------
(* C4: sequential replay.  A verify invoked after a verify of the same     *)
(* context returned valid=true, with the same context id, proof, binding   *)
(* and payload, and completing before expiry, returns REPLAY_DETECTED.     *)
C4_SequentialReplay ==
    \A c, d \in Calls :
        ( /\ Verified(c) /\ Verified(d)
          /\ call[c].error = "OK"
          /\ c \in call[d].after
          /\ call[d].context_id = call[c].context_id
          /\ call[d].client_proof = call[c].client_proof
          /\ call[d].expected_binding = call[c].expected_binding
          /\ SentBody(d, call[c].body)
          /\ BeforeExpiry(call[c].context_id) )
        => call[d].error = "ASH_REPLAY_DETECTED"

C4_Witness ==
    \E c, d \in Calls :
        /\ Verified(c) /\ Verified(d)
        /\ call[c].error = "OK"
        /\ c \in call[d].after
        /\ call[d].context_id = call[c].context_id
        /\ call[d].client_proof = call[c].client_proof
        /\ call[d].expected_binding = call[c].expected_binding
        /\ BeforeExpiry(call[c].context_id)
        /\ call[d].error = "ASH_REPLAY_DETECTED"

---------------------------------------------------------------------------
(* C5: no verify call invoked at a time now >= expires_at of its context   *)
(* (the boundary now = expires_at included) returns valid=true.            *)
C5_NoSuccessAtOrAfterExpiry ==
    \A c \in Calls :
        ( /\ Verified(c)
          /\ call[c].context_id \in Issued
          /\ call[c].t0 >= heap[call[c].context_id].expires_at )
        => call[c].error # "OK"

---------------------------------------------------------------------------
(* C6: any verify invoked at t >= expires_at of an issued context returns  *)
(* CONTEXT_EXPIRED, whatever its proof, binding and payload, the used flag *)
(* and the earlier verify calls on the id.                                 *)
C6_ExpiredCode ==
    \A c \in Calls :
        ( /\ Verified(c)
          /\ call[c].context_id \in Issued
          /\ call[c].t0 >= heap[call[c].context_id].expires_at )
        => call[c].error = "ASH_CONTEXT_EXPIRED"

---------------------------------------------------------------------------
(* C7: the checks run in the order exists, not expired (now < expires_at), *)
(* not used, binding, canonicalization, proof, consume.  So the code a     *)
(* completed verify returned is the one of the earliest failing check:     *)
(* every check before it passed, and valid=true means that all seven did,  *)
(* the consume included (no other call consumed the context).              *)
StageOf(error) ==
    CASE error = "ASH_INVALID_CONTEXT" -> 1
      [] error = "ASH_CONTEXT_EXPIRED" -> 2
      [] error = "ASH_REPLAY_DETECTED" -> 3
      [] error = "ASH_ENDPOINT_MISMATCH" -> 4
      [] error = "ASH_CANONICALIZATION_FAILED" -> 5
      [] error = "ASH_INTEGRITY_FAILED" -> 6
      [] error = "OK" -> 8
      [] OTHER -> 0

C7_EarliestFailingCheck ==
    \A c \in Calls :
        Verified(c) =>
            LET k == call[c].context_id
                stage == StageOf(call[c].error)
            IN /\ stage >= 1
               /\ stage > 1 => k \in Issued
               /\ stage > 2 => call[c].t0 < heap[k].expires_at
               /\ stage > 4 => call[c].expected_binding = heap[k].binding
               /\ stage > 5 => CanonicalPayload(call[c].body) # CanRaise
               /\ stage > 6 =>
                     call[c].client_proof =
                        ExpectedProof(heap[k], k, CanonicalPayload(call[c].body))
               /\ stage > 7 => ~ConsumedByOther(c, k)

---------------------------------------------------------------------------
(* C8: a failed verify does not burn the context.  The step in which a     *)
(* verify returns ENDPOINT_MISMATCH, CANONICALIZATION_FAILED or            *)
(* INTEGRITY_FAILED changes neither the store nor any context; and a       *)
(* verify of the same context invoked after it, at the context's endpoint  *)
(* with a body and the proof that matches it, returns valid=true when it   *)
(* completes before expiry and no other call has consumed the context.     *)
NotBurning ==
    {"ASH_ENDPOINT_MISMATCH", "ASH_CANONICALIZATION_FAILED", "ASH_INTEGRITY_FAILED"}

\* call d carries the endpoint, body and proof that verify against context k
MatchingRequest(d, k) ==
    /\ call[d].context_id = k
    /\ call[d].expected_binding = heap[k].binding
    /\ \E raw \in Bodies :
          /\ SentBody(d, raw)
          /\ CanonicalPayload(raw) # CanRaise
          /\ call[d].client_proof = ExpectedProof(heap[k], k, CanonicalPayload(raw))

FailedThenMatching(c, d) ==
    /\ Verified(c) /\ Verified(d)
    /\ call[c].error \in NotBurning
    /\ c \in call[d].after
    /\ call[c].context_id \in Issued
    /\ MatchingRequest(d, call[c].context_id)
    /\ BeforeExpiry(call[c].context_id)
    /\ ~ConsumedByOther(d, call[c].context_id)

C8_FailedVerifyKeepsContext ==
    /\ [][\A c \in Calls :
            (~Done(c) /\ Done(c)' /\ call'[c].error \in NotBurning)
            => (heap' = heap /\ context_store' = context_store)]_vars
    /\ [](\A c, d \in Calls : FailedThenMatching(c, d) => call[d].error = "OK")

C8_Witness ==
    \E c, d \in Calls :
        /\ FailedThenMatching(c, d)
        /\ call[c].error = "ASH_INTEGRITY_FAILED"
        /\ call[d].error = "OK"

---------------------------------------------------------------------------
(* C9: happy path.  The first verify of a context (no other call has       *)
(* consumed it), completing before expiry, at the endpoint the context is  *)
(* bound to, with the proof the client built over the canonical payload of *)
(* the body it sent, returns valid=true.                                   *)
C9_HappyPath ==
    \A c \in Calls, k \in Issued, d \in ProofData :
        ( /\ Verified(c)
          /\ HonestRequest(c, k, d)
          /\ BeforeExpiry(k)
          /\ ~ConsumedByOther(c, k) )
        => call[c].error = "OK"

---------------------------------------------------------------------------
(* C10: tamper detection.  A verify that passed checks 1 to 5 (it read and *)
(* canonicalized the body) and whose proof differs from the proof          *)
(* recomputed from the stored context and the observed canonical payload,  *)
(* in content or in length, returns INTEGRITY_FAILED.                      *)
ProofDiffers(c) ==
    /\ Verified(c)
    /\ call[c].body # Unread
    /\ CanonicalPayload(call[c].body) # CanRaise
    /\ call[c].client_proof #
          ExpectedProof(heap[call[c].context_id], call[c].context_id,
                        CanonicalPayload(call[c].body))

C10_TamperDetected ==
    \A c \in Calls : ProofDiffers(c) => call[c].error = "ASH_INTEGRITY_FAILED"

C10_Witness ==
    /\ \E c \in Calls :
          /\ ProofDiffers(c)
          /\ call[c].client_proof.len = 43
          /\ call[c].error = "ASH_INTEGRITY_FAILED"
    /\ \E c \in Calls :
          /\ ProofDiffers(c)
          /\ call[c].client_proof.len # 43
          /\ call[c].error = "ASH_INTEGRITY_FAILED"

---------------------------------------------------------------------------
(* Bindings as "<METHOD> <path>" strings: the method is what precedes the  *)
(* first space, the path what follows it.                                  *)

SpaceAt(binding) ==
    CHOOSE i \in 1..Len(binding) :
        /\ Char(binding, i) = " "
        /\ \A j \in 1..(i - 1) : Char(binding, j) # " "

MethodOf(binding) == SubSeq(binding, 1, SpaceAt(binding) - 1)

PathOf(binding) == SubSeq(binding, SpaceAt(binding) + 1, Len(binding))

Normalized(binding) == normalize_binding(MethodOf(binding), PathOf(binding))

---------------------------------------------------------------------------
(* C11: binding mismatch.  A completed verify of a context that is stored, *)
(* unexpired and unused, at an endpoint whose normalized binding differs   *)
(* from the context's stored binding, returned ENDPOINT_MISMATCH, whatever *)
(* its proof (the correct proof for the stored binding included).          *)
MismatchedRequest(c, k) ==
    /\ Verified(c)
    /\ call[c].context_id = k
    /\ k \in context_store
    /\ BeforeExpiry(k)
    /\ ~heap[k].used
    /\ Normalized(call[c].expected_binding) # heap[k].binding

C11_BindingMismatch ==
    \A c \in Calls, k \in Issued :
        MismatchedRequest(c, k) => call[c].error = "ASH_ENDPOINT_MISMATCH"

\* the mismatch is refused although the proof is the client's own, built
\* from the issued context over the body sent
C11_Witness ==
    \E c \in Calls, k \in Issued :
        /\ MismatchedRequest(c, k)
        /\ call[c].client_proof = ClientProof(IssueResponse(k), Data100)
        /\ call[c].error = "ASH_ENDPOINT_MISMATCH"

---------------------------------------------------------------------------
(* C12: unknown context.  A verify whose context id was not in the store   *)
(* when it was invoked (never issued, or removed by an earlier verify that *)
(* found it expired) returned INVALID_CONTEXT, whatever its proof, binding *)
(* and payload; and the step that returns INVALID_CONTEXT changes neither  *)
(* the store nor any context.                                              *)
RemovedBefore(c) ==
    \E e \in call[c].after :
        /\ call[e].context_id = call[c].context_id
        /\ call[e].error = "ASH_CONTEXT_EXPIRED"

UnknownContext(c) ==
    /\ Verified(c)
    /\ call[c].context_id \notin Issued \/ RemovedBefore(c)

C12_UnknownContext ==
    /\ [](\A c \in Calls :
            UnknownContext(c) => call[c].error = "ASH_INVALID_CONTEXT")
    /\ [][\A c \in Calls :
            (~Done(c) /\ Done(c)' /\ call'[c].error = "ASH_INVALID_CONTEXT")
            => (heap' = heap /\ context_store' = context_store)]_vars

\* a verify of a context that an earlier verify removed
C12_Witness ==
    \E c \in Calls :
        /\ Verified(c) /\ RemovedBefore(c)
        /\ call[c].error = "ASH_INVALID_CONTEXT"
        /\ call[c].context_id \in Issued \ context_store

---------------------------------------------------------------------------
(* C13: used is monotonic.  Whatever step is taken (issuance, a lookup, a  *)
(* step of a verify, the consumption, the removal of an expired context,   *)
(* the clock), a context whose used flag is true is still the context of   *)
(* its id, with used true, afterwards.                                     *)
C13_UsedMonotonic ==
    [][\A k \in Issued :
          heap[k].used => (k \in DOMAIN heap' /\ heap'[k].used)]_vars

\* a context was consumed, a later verify has run on it, and it is used
C13_Witness ==
    \E c, d \in Calls :
        /\ Verified(c) /\ Verified(d)
        /\ call[c].error = "OK"
        /\ c \in call[d].after
        /\ call[d].context_id = call[c].context_id
        /\ heap[call[c].context_id].used

---------------------------------------------------------------------------
(* C14: one context per id, and fresh ids.  Every stored context is the    *)
(* one record of its id; and every issuance adds one context under an id   *)
(* no context was issued under before, leaving every context already       *)
(* issued as it was (used flag included).                                  *)
IssueStep ==
    \E binding \in IssueBindings, mode \in Modes : issue_context(binding, mode)

---------------------------------------------------------------------------
(* C15: every stored context's binding, and the binding the issuance       *)
(* response returns, is the normalizer's output for its method and path.   *)
C15_StoredBindingNormalized ==
    \A k \in Issued :
        /\ heap[k].binding = Normalized(heap[k].binding)
        /\ IssueResponse(k).binding = Normalized(heap[k].binding)

---------------------------------------------------------------------------
(* C16: nonce iff strict.  In every state every context issued carries a   *)
(* nonce iff its mode is strict, a balanced context has nonce None, and    *)
(* the issuance response holds a nonce iff the context is strict.          *)
C16_NonceIffStrict ==
    \A k \in Issued :
        /\ HasNonce(heap[k].nonce) <=> heap[k].mode = "strict"
        /\ heap[k].mode = "balanced" => heap[k].nonce = NoNonce
        /\ HasNonce(IssueResponse(k).nonce) <=> heap[k].mode = "strict"
        /\ heap[k].mode = "strict" => IssueResponse(k).nonce = heap[k].nonce

\* a strict context with its nonce and a balanced one without
C16_Witness ==
    \E k, j \in Issued :
        /\ heap[k].mode = "strict" /\ HasNonce(heap[k].nonce)
        /\ HasNonce(IssueResponse(k).nonce)
        /\ heap[j].mode = "balanced" /\ heap[j].nonce = NoNonce
        /\ IssueResponse(j).nonce = NoNonce

---------------------------------------------------------------------------
(* C17: create.  A create(binding, ttl_ms, mode, metadata) step stores,    *)
(* under an id not in the store, a record with used = false, the given     *)
(* binding, mode and metadata and expires_at = now + ttl_ms, and changes   *)
(* no other record; every record in the store, and every record a get      *)
(* returned, under any interleaving with create, is complete (it has all   *)
(* seven fields, and the id asked for).                                    *)
StoredContextFields ==
    {"id", "binding", "mode", "expires_at", "used", "nonce", "metadata"}

Complete(rec) ==
    /\ DOMAIN rec = StoredContextFields
    /\ rec.binding \in StoreBindings /\ rec.mode \in Modes
    /\ rec.metadata \in Metadatas /\ rec.used \in BOOLEAN
    /\ rec.expires_at \in Nat

---------------------------------------------------------------------------
(* C18: get.  A get(id) step returns the stored record of that id when the *)
(* context exists and is unexpired (now < expires_at) and NONE when the id *)
(* is unknown or the context expired; it changes no record that stays in   *)
(* the store, so no used flag, and removes at most the expired record it   *)
(* was asked for.                                                          *)
GetReturns(o) == op[o].name = "get" /\ op[o].pc = "get" /\ op'[o] # op[o]

Live(id) == id \in StoreIds /\ now < store[id].expires_at

C18_Get ==
    [][\A o \in Ops :
          GetReturns(o) =>
             /\ Live(op[o].id) =>
                   /\ op'[o].ret = "record"
                   /\ op'[o].rec = store[op[o].id]
                   /\ op'[o].rec.id = op[o].id
             /\ ~Live(op[o].id) =>
                   /\ op'[o].ret = "NONE"
                   /\ op'[o].rec = NoRecord
             /\ \A k \in DOMAIN store' : k \in StoreIds /\ store'[k] = store[k]
             /\ \A k \in StoreIds \ DOMAIN store' :
                   k = op[o].id /\ ~Live(k)]_vars

\* get has returned the record of a consumed context, still used, and NONE
\* for a context that expired
C18_Witness ==
    \E o, q \in Ops :
        /\ op[o].pc = "done" /\ op[o].name = "get" /\ op[o].ret = "record"
        /\ op[o].rec.used
        /\ op[o].id \in StoreIds /\ store[op[o].id].used
        /\ op[q].pc = "done" /\ op[q].name = "get" /\ op[q].ret = "NONE"
        /\ op[q].id = op[o].id

---------------------------------------------------------------------------
(* C19: the v1 proof.  Each of the three builders returns the hash of      *)
(* "ASHv1\n" + mode + "\n" + binding + "\n" + contextId + "\n"             *)
(* + [nonce + "\n"] + canonicalPayload, the nonce segment being there iff  *)
(* a nonce is carried (neither None nor empty); so the server, the client  *)
(* and the package builder agree on every input.                           *)
ProofString(a) ==
    "ASHv1\n" \o a.mode \o "\n" \o a.binding \o "\n" \o a.context_id \o "\n"
        \o (IF a.nonce \in {NoNonce, ""} THEN "" ELSE a.nonce \o "\n")
        \o a.canonical_payload

C19_ProofString ==
    result.called =>
        /\ result.server = [len |-> 43, pre |-> ProofString(args)]
        /\ result.client = result.server
        /\ result.package = result.server

\* a proof built with a nonce, and the string it hashes
C19_Witness ==
    /\ result.called
    /\ args.nonce = "nonce1"
    /\ result.client.pre = "ASHv1\nstrict\nPOST /api/update\nctx_1\nnonce1\n{}"
    /\ result.package = result.server

---------------------------------------------------------------------------
(* C20: tamper-evidence.  An input that differs from the one hashed in     *)
(* exactly one of canonical payload, binding, context id and nonce (the    *)
(* mode and the other components the same; None and the empty nonce both   *)
(* being no nonce) has another hashed string, hence another proof.         *)
SameNonce(a, b) ==
    a.nonce = b.nonce \/ (a.nonce \in {NoNonce, ""} /\ b.nonce \in {NoNonce, ""})

Changed(a, b) ==
    {f \in {"binding", "context_id", "canonical_payload"} : a[f] # b[f]}
        \cup (IF SameNonce(a, b) THEN {} ELSE {"nonce"})

OneChanged(a, b) == a.mode = b.mode /\ Cardinality(Changed(a, b)) = 1

C20_TamperEvident ==
    result.called =>
        \A other \in ProofInputs :
            OneChanged(args, other) =>
                /\ ash_build_proof(other).pre # result.package.pre
                /\ ash_build_proof(other) # result.package

\* each of the four components changed alone gives another proof
C20_Witness ==
    /\ result.called
    /\ \A f \in {"binding", "context_id", "canonical_payload", "nonce"} :
          \E other \in ProofInputs :
              /\ OneChanged(args, other)
              /\ Changed(args, other) = {f}
              /\ ash_build_proof(other) # result.package

---------------------------------------------------------------------------
(* C21: v2.1 verification.  verify_proof_v21 is true iff the proof given   *)
(* is build_proof_v21(derive_client_secret(nonce, context_id, binding),    *)
(* timestamp, binding, body_hash): the proof a client built for the        *)
(* request verifies, and the proof a client built for a request that       *)
(* differs in context id, binding, timestamp or body hash (under the same  *)
(* nonce) does not.                                                        *)
Differs(r, q) ==
    /\ r.nonce = q.nonce
    /\ \/ r.context_id # q.context_id
       \/ r.binding # q.binding
       \/ r.timestamp # q.timestamp
       \/ r.body_hash # q.body_hash

C21_VerifyV21 ==
    result.called =>
        /\ result.valid = "True" <=>
              args.client_proof =
                 [alg |-> "HMAC-SHA256",
                  key |-> [alg |-> "HMAC-SHA256", key |-> args.request.nonce,
                           message |-> args.request.context_id \o "|"
                                          \o args.request.binding],
                  message |-> args.request.timestamp \o "|" \o args.request.binding
                                 \o "|" \o args.request.body_hash]
        /\ args.client_proof = V21ClientProof(args.request) => result.valid = "True"
        /\ \A q \in V21Requests :
              (Differs(args.request, q) /\ args.client_proof = V21ClientProof(q))
              => result.valid # "True"

\* a proof built for the timestamp "1700000000000|1" and the binding
\* "POST /api/update" was refused for the timestamp "1700000000000" and the
\* binding "1|POST /api/update", which give the same message
C21_Witness ==
    /\ result.called
    /\ result.valid = "False"
    /\ args.request.timestamp = "1700000000000"
    /\ args.request.binding = "1|POST /api/update"
    /\ \E q \in V21Requests :
          /\ Differs(args.request, q)
          /\ q.timestamp = "1700000000000|1"
          /\ q.binding = "POST /api/update"
          /\ q.body_hash = args.request.body_hash
          /\ q.context_id = args.request.context_id
          /\ args.client_proof = V21ClientProof(q)

---------------------------------------------------------------------------
(* The binding normalizer on its own: every method of BindingMethods and   *)
(* every path over PathAlphabet of at most MaxPathLen characters, and the  *)
(* inputs of tests/test_binding.py and tests/test_core.py.                 *)

MaxPathLen == 4

PathAlphabet == {"a", "b", "/", "?"}

RECURSIVE Strings(_)
Strings(n) ==
    IF n = 0 THEN {""}
    ELSE LET shorter == Strings(n - 1)
         IN shorter \cup {str \o ch : str \in shorter, ch \in PathAlphabet}

BindingMethods == {"post", "GET", "Get"}

TestPaths ==
    {"/api/update", "/api/users?id=123", "api/users", "/api//users///list",
     "/api/users/", "/", "api//test/?foo=bar", "/api//update/"}

BindingInputs == [method : BindingMethods, path : Strings(MaxPathLen) \cup TestPaths]

InitBinding ==
    /\ now = 0
    /\ heap = <<>>
    /\ context_store = {}
    /\ call = [c \in Calls |-> IdleCall]
    /\ store = <<>>
    /\ created = 0
    /\ lock = 0
    /\ op = [o \in Ops |-> IdleOp]
    /\ args \in BindingInputs
    /\ result = NotCalled

\* ash_normalize_binding(method, path), and once more on its own output
\* split at the space into (METHOD, path)
NormalizeBinding ==
    /\ ~result.called
    /\ LET binding == normalize_binding(args.method, args.path)
       IN result' = [called |-> TRUE,
                     binding |-> binding,
                     again |-> normalize_binding(MethodOf(binding), PathOf(binding))]
    /\ UNCHANGED <<now, appVars, storeVars, args>>

BindingNext == NormalizeBinding

SpecBinding == InitBinding /\ [][BindingNext]_vars

---------------------------------------------------------------------------
(* C22: the normalizer's output.  For every method and path the result is  *)
(* "<METHOD> <path>": the method's letters in upper case, then a space,    *)
(* then a path that holds nothing of the query string, starts with exactly *)
(* one '/', has no two consecutive '/', has no trailing '/' unless it is   *)
(* exactly "/", and keeps the segments of the input path in their order.   *)
BeforeQuery(path) ==
    CHOOSE pre \in {SubSeq(path, 1, n) : n \in 0..Len(path)} :
        /\ \A i \in 1..Len(pre) : Char(pre, i) # "?"
        /\ Len(pre) < Len(path) => Char(path, Len(pre) + 1) = "?"

\* the non-empty pieces between the '/' of a path, in order
RECURSIVE Segments(_, _)
Segments(path, piece) ==
    IF Len(path) = 0
    THEN IF piece = "" THEN <<>> ELSE <<piece>>
    ELSE IF Char(path, 1) = "/"
         THEN (IF piece = "" THEN <<>> ELSE <<piece>>) \o Segments(Tail(path), "")
         ELSE Segments(Tail(path), piece \o Char(path, 1))

IsUpperOf(ch, low) ==
    \/ /\ ch = low
       /\ \A i \in 1..Len(LowerCase) : Char(LowerCase, i) # low
    \/ \E i \in 1..Len(LowerCase) :
          Char(LowerCase, i) = low /\ Char(UpperCase, i) = ch

C22_NormalizedForm ==
    result.called =>
        LET method == MethodOf(result.binding)
            path == PathOf(result.binding)
        IN /\ result.binding = method \o " " \o path
           /\ Len(method) = Len(args.method)
           /\ \A i \in 1..Len(method) :
                 IsUpperOf(Char(method, i), Char(args.method, i))
           /\ \A i \in 1..Len(path) : Char(path, i) # "?"
           /\ Len(path) >= 1
           /\ Char(path, 1) = "/"
           /\ \A i \in 1..(Len(path) - 1) :
                 ~(Char(path, i) = "/" /\ Char(path, i + 1) = "/")
           /\ Char(path, Len(path)) = "/" => path = "/"
           /\ Segments(path, "") = Segments(BeforeQuery(args.path), "")
           /\ (args.method = "post" /\ args.path = "api//test/?foo=bar")
                 => result.binding = "POST /api/test"
           /\ (args.method = "GET" /\ args.path = "/") => result.binding = "GET /"

\* the example with every step at work, and the root path
C22_Witness ==
    /\ result.called
    /\ \/ /\ args.method = "post"
          /\ args.path = "api//test/?foo=bar"
          /\ result.binding = "POST /api/test"
       \/ /\ args.path = "//?a"
          /\ PathOf(result.binding) = "/"

---------------------------------------------------------------------------
(* C23: idempotence.  Splitting the normalizer's output at its space into  *)
(* (METHOD, path) and normalizing these again gives the same string.       *)
C23_Idempotent ==
    result.called => result.again = result.binding

\* an input that every step changes
C23_Witness ==
    /\ result.called
    /\ args.method = "Get"
    /\ args.path = "a//?"
    /\ result.binding = "GET /a"
    /\ result.again = "GET /a"

---------------------------------------------------------------------------
(* C24: key-order independence.  Two values holding the same key/value     *)
(* pairs at every nesting level canonicalize to the same string, in the    *)
(* server's canonicalizer and in the client's; the keys come out in        *)
(* ascending code-point order ("B" before "a" before "b"), the elements of *)
(* an array stay in their order, and the proofs over the two are equal.    *)
C24_KeyOrderIndependent ==
    result.called =>
        /\ result.server = result.server_other
        /\ result.client = result.client_obj
        /\ result.server = result.client
        /\ result.expected_proof = result.client_proof
        /\ args.obj = JDict(<<<<"b", JInt(1)>>, <<"a", JInt(2)>>>>)
              => result.server = "{\"a\":2,\"b\":1}"
        /\ args.obj = JDict(<<<<"a", JInt(2)>>, <<"b", JInt(1)>>>>)
              => result.server = "{\"a\":2,\"b\":1}"
        /\ args.obj = JDict(<<<<"a", JInt(1)>>, <<"B", JInt(2)>>>>)
              => result.server = "{\"B\":2,\"a\":1}"
        /\ args.obj = JDict(<<<<"a", JList(<<JInt(2), JInt(1)>>)>>>>)
              => result.server = "{\"a\":[2,1]}"
        /\ args.obj = JList(<<JDict(<<<<"b", JInt(1)>>, <<"a", JInt(2)>>>>), JInt(0)>>)
              => result.server = "[{\"a\":2,\"b\":1},0]"

\* the two orders of the example, one on each side / an object whose inner
\* object is in another order too
C24_Witness ==
    /\ result.called
    /\ \/ /\ args.obj = JDict(<<<<"b", JInt(1)>>, <<"a", JInt(2)>>>>)
          /\ args.other = JDict(<<<<"a", JInt(2)>>, <<"b", JInt(1)>>>>)
          /\ result.client = "{\"a\":2,\"b\":1}"
       \/ /\ args.obj = JDict(<<<<"name", JDict(<<<<"b", JInt(1)>>, <<"a", JInt(2)>>>>)>>,
                                <<"amount", JInt(100)>>>>)
          /\ args.other = JDict(<<<<"amount", JInt(100)>>,
                                  <<"name", JDict(<<<<"a", JInt(2)>>, <<"b", JInt(1)>>>>)>>>>)
          /\ result.client = "{\"amount\":100,\"name\":{\"a\":2,\"b\":1}}"

---------------------------------------------------------------------------
(* C25: HTTP mapping of a protected request.  A request without context id *)
(* or proof header is answered ASH_MISSING_HEADERS with status 401 and the *)
(* store is not read; every failed verify is answered with its error code  *)
(* and status 401, or 400 for CANONICALIZATION_FAILED; the handler runs     *)
(* (status 200) only for a request whose checks all passed.                *)
ErrorCodes ==
    {"ASH_MISSING_HEADERS", "ASH_INVALID_CONTEXT", "ASH_CONTEXT_EXPIRED",
     "ASH_REPLAY_DETECTED", "ASH_ENDPOINT_MISMATCH", "ASH_CANONICALIZATION_FAILED",
     "ASH_INTEGRITY_FAILED"}

C25_HttpMapping ==
    \A c \in Calls :
        Done(c) =>
            /\ (call[c].context_id = None \/ call[c].client_proof = NoProof)
                  => /\ call[c].error = "ASH_MISSING_HEADERS"
                     /\ call[c].status = 401
                     /\ call[c].context = None
            /\ call[c].error # "OK"
                  => /\ call[c].error \in ErrorCodes
                     /\ call[c].status =
                            IF call[c].error = "ASH_CANONICALIZATION_FAILED"
                            THEN 400 ELSE 401
            /\ call[c].error = "OK"
                  => /\ call[c].status = 200
                     /\ call[c].context = call[c].context_id
                     /\ call[c].expected_binding = heap[call[c].context].binding
                     /\ CanonicalPayload(call[c].body) # CanRaise
                     /\ call[c].client_proof =
                            ExpectedProof(heap[call[c].context], call[c].context_id,
                                          CanonicalPayload(call[c].body))

---------------------------------------------------------------------------
(* C27: closed verdicts under concurrency.  Under any interleaving of      *)
(* verify calls and issuance, a verify call that completed did so with one *)
(* verdict: valid=true or one code of the closed error set, never an       *)
(* unhandled error.                                                        *)
C27_ClosedVerdict ==
    \A c \in Calls :
        Done(c) => call[c].error \in ErrorCodes \cup {"OK"}

---------------------------------------------------------------------------
(* C26: a verdict reached before the crypto check does not depend on the   *)
(* proof and payload.  Whenever a verify call returns CONTEXT_EXPIRED,     *)
(* REPLAY_DETECTED or ENDPOINT_MISMATCH, the same step taken from the same *)
(* state with any other supplied proof and any other payload returns the   *)
(* same code and leaves the same state: the code is a function of the      *)
(* context and the endpoint alone, the payload is not read, and the store  *)
(* changes only by the removal of the expired context.                     *)
SuppliedProofs(k) == ProofsFor(k) \ {NoProof}

PreCryptoCodes == {"ASH_CONTEXT_EXPIRED", "ASH_REPLAY_DETECTED", "ASH_ENDPOINT_MISMATCH"}

Returns(c, codes) ==
    call[c].pc # "done" /\ call'[c].pc = "done" /\ call'[c].error \in codes

C26_PreCryptoVerdict ==
    [][\A c \in Calls :
          Returns(c, PreCryptoCodes) =>
              LET k == call[c].context_id
              IN /\ call'[c].body = Unread
                 /\ heap' = heap
                 /\ \A e \in Calls \ {c} : call'[e] = call[e]
                 /\ call'[c].error = "ASH_CONTEXT_EXPIRED"
                       => /\ call[c].pc = "del"
                          /\ Expired(now, heap[k])
                          /\ context_store' = context_store \ {k}
                 /\ call'[c].error # "ASH_CONTEXT_EXPIRED"
                       => /\ call[c].pc = "verify"
                          /\ context_store' = context_store
                          /\ \A p \in SuppliedProofs(k), body \in Bodies :
                                Verdict(heap[k], k, p, call[c].expected_binding, body)
                                   = call'[c].error]_vars

\* two completed calls on one context at an endpoint it is not bound to, one
\* with the client's proof and one with a proof that matches nothing, both
\* answered ENDPOINT_MISMATCH
C26_Witness ==
    \E c, e \in Calls, k \in Issued :
        /\ Done(c) /\ call[c].context_id = k
        /\ Done(e) /\ call[e].context_id = k
        /\ call[c].client_proof = ClientProof(IssueResponse(k), Data100)
        /\ call[e].client_proof = Truncated(ClientProof(IssueResponse(k), Data100))
        /\ call[c].error = "ASH_ENDPOINT_MISMATCH"
        /\ call[e].error = "ASH_ENDPOINT_MISMATCH"

---------------------------------------------------------------------------
(* C28: the hashed string is an injective encoding.  Two inputs (mode,     *)
(* binding, context_id, nonce, canonical_payload) that differ in any       *)
(* component, a nonce None, empty or non-empty and components with newline *)
(* characters included, have different hashed strings and different        *)
(* proofs, in the package's build_proof and in app.py's.                   *)
C28_InjectiveEncoding ==
    result.called =>
        \A other \in ProofInputs :
            other # args =>
                /\ ash_build_proof(other) # result.package
                /\ build_proof(other.mode, other.binding, other.context_id,
                               other.nonce, other.canonical_payload) # result.server

---------------------------------------------------------------------------
(* C29: the frame of verify.  A step of a verify call for context id A,    *)
(* whatever the call's outcome, leaves every other context as it was:      *)
(* stored or not, used flag, binding, mode, nonce and expires_at.  Of A it *)
(* changes at most the used flag, to true, or removes A from the store.    *)
VerifyStep(c) == call[c].pc # "idle" /\ call'[c] # call[c]

C29_VerifyFrame ==
    [][\A c \in Calls :
          VerifyStep(c) =>
              LET A == call[c].context_id
              IN /\ DOMAIN heap' = Issued
                 /\ \A k \in Issued \ {A} :
                       /\ heap'[k] = heap[k]
                       /\ k \in context_store' <=> k \in context_store
                 /\ context_store' \in {context_store, context_store \ {A}}
                 /\ A \in Issued =>
                       heap'[A] \in {heap[A], [heap[A] EXCEPT !.used = TRUE]}]_vars

\* a verify removed the expired context it was asked for, or consumed it,
\* next to another stored context that is as expired and as unused
C29_Witness ==
    \E c \in Calls, A, B \in Issued :
        /\ A # B
        /\ Done(c)
        /\ call[c].context_id = A
        /\ B \in context_store
        /\ ~heap[B].used
        /\ heap[B].expires_at = heap[A].expires_at
        /\ \/ call[c].error = "ASH_CONTEXT_EXPIRED" /\ A \notin context_store
           \/ call[c].error = "OK" /\ heap[A].used

---------------------------------------------------------------------------
(* C30: removal on the first read past expires_at.  The verify that finds  *)
(* a stored context past its expires_at removes it: in that step the store *)
(* loses this id and nothing else, so its size drops by one; from then on  *)
(* the store holds no record for the id, no second verify reports the      *)
(* context expired, and a verify invoked after it with that id returns     *)
(* INVALID_CONTEXT.                                                        *)
FoundExpired(c, k) ==
    /\ Done(c)
    /\ call[c].context_id = k
    /\ call[c].error = "ASH_CONTEXT_EXPIRED"

C30_RemovedOnExpiredRead ==
    /\ [](\A c \in Calls, k \in Issued :
            FoundExpired(c, k) =>
                /\ now > heap[k].expires_at
                /\ k \notin context_store
                /\ \A d \in Calls \ {c} :
                      /\ ~FoundExpired(d, k)
                      /\ (Verified(d) /\ call[d].context_id = k /\ c \in call[d].after)
                            => call[d].error = "ASH_INVALID_CONTEXT")
    /\ [][\A c \in Calls :
            Returns(c, {"ASH_CONTEXT_EXPIRED"}) =>
                /\ call[c].context_id \in context_store
                /\ context_store' = context_store \ {call[c].context_id}
                /\ Cardinality(context_store') = Cardinality(context_store) - 1]_vars
    /\ [][\A c \in Calls :
            (call[c].pc = "expiry" /\ call'[c].pc # "expiry"
               /\ now > heap[call[c].context].expires_at)
            => call'[c].pc = "del"]_vars

\* the context was removed by the first verify past its expiry, and the
\* verify invoked after that one found no context
C30_Witness ==
    \E c, d \in Calls, k \in Issued :
        /\ FoundExpired(c, k)
        /\ Done(d) /\ call[d].context_id = k /\ c \in call[d].after
        /\ call[d].error = "ASH_INVALID_CONTEXT"
        /\ k \notin context_store
        /\ context_store = {}

=============================================================================
